---- MODULE Spec2Model ----
(***************************************************************************)
(* Multi-agent simulation generation pipeline of NgIBL:                    *)
(*   agentGenerateSimulation (plan -> generate -> validate -> refine),     *)
(*   its agents, the local syntax check and the code extractor.            *)
(*                                                                         *)
(* Text is modelled as a sequence of tokens.  A token is one character     *)
(* ("{", "\"", "\n", ...) or one lexeme standing for the characters of a   *)
(* word the code searches for ("import", "return", "fence", ...).  TokLen  *)
(* gives the number of characters a token stands for, so that the length   *)
(* tests and the reported positions of the code are computed in            *)
(* characters.  Indices are 1-based; 0 stands for JavaScript's -1.         *)
(***************************************************************************)
EXTENDS Integers, Sequences, FiniteSets, TLC

VARIABLES
    pc,         \* position of the async function agentGenerateSimulation
    type,       \* ctx.type: "REACT" or "GEOGEBRA"
    plan,       \* ctx.plan (<<>> while undefined)
    code,       \* ctx.code (<<>> while undefined)
    errors,     \* ctx.errors (<<>> while undefined)
    attempts,   \* ctx.attempts
    result,     \* the resolved AgentResult, or NoResult
    pending,    \* the generateContent call awaited, or NoCall
    inFlight,   \* the number of generateContent calls issued and not yet settled
    calls,      \* log: the agents whose generateContent calls were issued
    validation, \* the verdict the last validatorAgent call resolved to
    answer,     \* log: the outcome of the last generateContent call that ended
    verdicts,   \* log: the valid flag of every verdict, in order
    checked,    \* log: TRUE iff ctx.code was handed to validatorAgent since it was set
    candidate,  \* the code argument of a quickSyntaxCheck call
    defects,    \* the errors that call returned
    rawText,    \* the raw argument of an extractCode call
    kind,       \* the type argument of that call
    extracted,  \* the text that call returned
    applied,    \* TRUE once the function under study has returned
    gpc,        \* position of one generateContent call
    provider,   \* its provider argument
    model,      \* its options.model (<<>> while undefined)
    requests,   \* log: the transport of every upstream request it made, in order
    responses,  \* log: what the upstream answered to each request
    outcome,    \* what the call returned or threw, or NoOutcome
    now,        \* Date.now(), in seconds
    kvConfigured, \* TRUE iff getKV() returns a client
    key,        \* the KV entry ratelimit:action:identifier: its count and its expiry
    lifetime,   \* log: how many times that entry was created
    callers,    \* the rateLimit calls in progress: position and count of each
    history     \* log: the RateLimitResult of every call that returned

\* the generation context and the orchestrator's position
ctxVars == <<pc, type, plan, code, errors, attempts, result, pending, inFlight, calls,
             validation, answer, verdicts, checked>>

\* one call of a text function, studied on its own
textVars == <<candidate, defects, rawText, kind, extracted, applied>>

\* one generateContent call, from entry to return or throw
adapterVars == <<gpc, provider, model, requests, responses, outcome>>

\* the rate limiter: the clock, the KV entry of one key, the calls on that key
limiterVars == <<now, kvConfigured, key, lifetime, callers, history>>

\* what a step of agentGenerateSimulation does not touch
outside == <<textVars, adapterVars, limiterVars>>

vars == <<ctxVars, outside>>

-----------------------------------------------------------------------------
(* Strings *)

WS == {" ", "\n"}

\* "bt" is the backtick character, "fence" three of them in a row
BackTick == "bt"

Fence == "fence"

Quotes == {"\"", "'", BackTick}

TokLen(t) ==
    CASE t = Fence -> 3
      [] t = "jsx" -> 3
      [] t = "export default function" -> 23
      [] t = "import" -> 6
      [] t = "from" -> 4
      [] t = "return" -> 6
      [] t = "const" -> 5
      [] t = "function" -> 8
      [] t = "commands" -> 8
      [] t = "VALID" -> 5
      [] t = "valid" -> 5
      [] t = "words" -> 60
      [] OTHER -> 1

RECURSIVE CharLen(_)
CharLen(s) == IF s = <<>> THEN 0 ELSE TokLen(Head(s)) + CharLen(Tail(s))

Min(S) == CHOOSE x \in S : \A y \in S : x <= y

Max(S) == CHOOSE x \in S : \A y \in S : x >= y

RECURSIVE TrimStart(_)
TrimStart(s) == IF s # <<>> /\ Head(s) \in WS THEN TrimStart(Tail(s)) ELSE s

RECURSIVE TrimEnd(_)
TrimEnd(s) ==
    IF s # <<>> /\ s[Len(s)] \in WS THEN TrimEnd(SubSeq(s, 1, Len(s) - 1)) ELSE s

Trim(s) == TrimEnd(TrimStart(s))

\* the first index >= i of s that holds no whitespace, Len(s) + 1 if none
SkipWs(s, i) ==
    LET rest == {j \in i..Len(s) : s[j] \notin WS}
    IN  IF rest = {} THEN Len(s) + 1 ELSE Min(rest)

MatchAt(s, pat, i) ==
    /\ i >= 1
    /\ i + Len(pat) - 1 <= Len(s)
    /\ SubSeq(s, i, i + Len(pat) - 1) = pat

\* String.prototype.indexOf(pat, from)
IndexOf(s, pat, from) ==
    LET hits == {i \in from..Len(s) : MatchAt(s, pat, i)}
    IN  IF hits = {} THEN 0 ELSE Min(hits)

Includes(s, pat) == IndexOf(s, pat, 1) # 0

Substring(s, i) == SubSeq(s, i, Len(s))

\* String.prototype.split at line feeds
RECURSIVE SplitLines(_)
SplitLines(s) ==
    LET n == IndexOf(s, <<"\n">>, 1)
    IN  IF n = 0 THEN <<s>>
        ELSE <<SubSeq(s, 1, n - 1)>> \o SplitLines(Substring(s, n + 1))

RECURSIVE Reverse(_)
Reverse(s) == IF s = <<>> THEN <<>> ELSE Reverse(Tail(s)) \o <<Head(s)>>

\* the number of tokens of the match of /^\d+\./ at the head of s, 0 if none
NumberDot(s) ==
    LET d == Min({j \in 1..(Len(s) + 1) : j > Len(s) \/ s[j] # "1"})
    IN  IF d > 1 /\ d <= Len(s) /\ s[d] = "." THEN d ELSE 0

\* line.replace(/^\d+\.\s*/, '')
StripNumber(s) ==
    IF NumberDot(s) = 0 THEN s ELSE Substring(s, SkipWs(s, NumberDot(s) + 1))

-----------------------------------------------------------------------------
(* JSON.parse, as a recogniser: the index after the value, 0 on SyntaxError *)

\* the index after the string literal whose content starts at s[j], 0 if malformed
RECURSIVE JString(_, _)
JString(s, j) ==
    IF j > Len(s) THEN 0
    ELSE IF s[j] = "\"" THEN j + 1
    ELSE IF s[j] = "\n" THEN 0
    ELSE IF s[j] = "\\"
         THEN IF j + 1 <= Len(s) /\ s[j + 1] \in {"\"", "\\", "/"}
              THEN JString(s, j + 2)
              ELSE 0
    ELSE JString(s, j + 1)

\* the index after the run of digits starting at s[i]
JDigits(s, i) == Min({j \in i..(Len(s) + 1) : j > Len(s) \/ s[j] # "1"})

JNumber(s, i) ==
    LET d == JDigits(s, i)
    IN  IF d <= Len(s) /\ s[d] = "."
        THEN IF JDigits(s, d + 1) > d + 1 THEN JDigits(s, d + 1) ELSE 0
        ELSE d

RECURSIVE JValue(_, _)
RECURSIVE JMembers(_, _)
RECURSIVE JElements(_, _)

\* after "{" or ",": "key" : value, then "," or "}"
JMembers(s, i) ==
    LET k == SkipWs(s, i)
        c == IF k <= Len(s) /\ s[k] = "\"" /\ JString(s, k + 1) # 0
             THEN SkipWs(s, JString(s, k + 1)) ELSE 0
        v == IF c >= 1 /\ c <= Len(s) /\ s[c] = ":" THEN JValue(s, c + 1) ELSE 0
        e == IF v = 0 THEN 0 ELSE SkipWs(s, v)
    IN  IF e = 0 \/ e > Len(s) THEN 0
        ELSE IF s[e] = "}" THEN e + 1
        ELSE IF s[e] = "," THEN JMembers(s, e + 1)
        ELSE 0

\* after "[" or ",": value, then "," or "]"
JElements(s, i) ==
    LET v == JValue(s, i)
        e == IF v = 0 THEN 0 ELSE SkipWs(s, v)
    IN  IF e = 0 \/ e > Len(s) THEN 0
        ELSE IF s[e] = "]" THEN e + 1
        ELSE IF s[e] = "," THEN JElements(s, e + 1)
        ELSE 0

JValue(s, i) ==
    LET k == SkipWs(s, i)
    IN  IF k > Len(s) THEN 0
        ELSE IF s[k] = "\"" THEN JString(s, k + 1)
        ELSE IF s[k] = "1" THEN JNumber(s, k)
        ELSE IF s[k] = "{"
             THEN IF SkipWs(s, k + 1) <= Len(s) /\ s[SkipWs(s, k + 1)] = "}"
                  THEN SkipWs(s, k + 1) + 1
                  ELSE JMembers(s, k + 1)
        ELSE IF s[k] = "["
             THEN IF SkipWs(s, k + 1) <= Len(s) /\ s[SkipWs(s, k + 1)] = "]"
                  THEN SkipWs(s, k + 1) + 1
                  ELSE JElements(s, k + 1)
        ELSE 0

\* TRUE iff JSON.parse(s) returns, FALSE iff it throws
JSONParse(s) ==
    LET e == JValue(s, 1)
    IN  e # 0 /\ SkipWs(s, e) = Len(s) + 1

-----------------------------------------------------------------------------
(* extractCode *)

NoMatch == [found |-> FALSE, text |-> <<>>]

CommandsKey == <<"\"", "commands", "\"">>

\* text.match(/\{[\s\S]*"commands"[\s\S]*\}/)
JsonMatch(text) ==
    LET p == IndexOf(text, <<"{">>, 1)
        closers == {q \in 1..Len(text) : text[q] = "}"}
        q == IF closers = {} THEN 0 ELSE Max(closers)
    IN  IF p # 0 /\ \E k \in (p + 1)..(q - 3) : MatchAt(text, CommandsKey, k)
        THEN [found |-> TRUE, text |-> SubSeq(text, p, q)]
        ELSE NoMatch

\* s.replace(/,\s*}/g, '}') for closer "}", s.replace(/,\s*]/g, ']') for "]"
RECURSIVE ReplaceTrailingComma(_, _)
ReplaceTrailingComma(s, closer) ==
    IF s = <<>> THEN <<>>
    ELSE IF Head(s) = "," /\ TrimStart(Tail(s)) # <<>> /\ Head(TrimStart(Tail(s))) = closer
         THEN <<closer>> \o ReplaceTrailingComma(Tail(TrimStart(Tail(s))), closer)
         ELSE <<Head(s)>> \o ReplaceTrailingComma(Tail(s), closer)

FixJson(s) == ReplaceTrailingComma(ReplaceTrailingComma(s, "}"), "]")

ExtractGeogebra(text) ==
    LET jsonMatch == JsonMatch(text)
    IN  IF jsonMatch.found /\ JSONParse(jsonMatch.text) THEN jsonMatch.text
        ELSE IF jsonMatch.found /\ JSONParse(FixJson(jsonMatch.text))
             THEN FixJson(jsonMatch.text)
        ELSE text

\* the match of /```(?:jsx|...)?\s*\n([\s\S]*?)```/ that opens at s[p]: group 1 as
\* <<first, last>>, <<0, 0>> if the pattern does not match there
FenceAt(s, p) ==
    LET q0 == IF p + 1 <= Len(s) /\ s[p + 1] = "jsx" THEN p + 2 ELSE p + 1
        e == SkipWs(s, q0)
        nls == {n \in q0..(e - 1) : s[n] = "\n"}
        start == IF nls = {} THEN 0 ELSE Max(nls) + 1
        close == IF start = 0 THEN 0 ELSE IndexOf(s, <<Fence>>, start)
    IN  IF s[p] = Fence /\ close # 0 THEN <<start, close - 1>> ELSE <<0, 0>>

FenceMatch(s) ==
    LET opens == {p \in 1..Len(s) : FenceAt(s, p) # <<0, 0>>}
    IN  IF opens = {} THEN NoMatch
        ELSE [found |-> TRUE,
              text |-> SubSeq(s, FenceAt(s, Min(opens))[1], FenceAt(s, Min(opens))[2])]

\* step 1: keep the content of the first code fence
StripFence(text) ==
    IF FenceMatch(text).found THEN Trim(FenceMatch(text).text) ELSE text

ExportDefault == <<"export default function">>

\* step 2: drop prose before "export default function"
StripBefore(text) ==
    LET exportIdx == IndexOf(text, ExportDefault, 1)
        before == Trim(SubSeq(text, 1, exportIdx - 1))
    IN  IF /\ exportIdx > 1
           /\ Includes(before, <<".">>)
           /\ CharLen(before) > 50
           /\ ~Includes(before, <<"const", " ">>)
           /\ ~Includes(before, <<"function", " ">>)
        THEN Substring(text, exportIdx)
        ELSE text

\* the index of the "}" that brings the depth back to 0, 0 if there is none
RECURSIVE LastBrace(_, _, _)
LastBrace(text, i, depth) ==
    IF i > Len(text) THEN 0
    ELSE IF text[i] = "{" THEN LastBrace(text, i + 1, depth + 1)
    ELSE IF text[i] = "}"
         THEN IF depth - 1 = 0 THEN i ELSE LastBrace(text, i + 1, depth - 1)
    ELSE LastBrace(text, i + 1, depth)

\* step 3: drop text after the closing brace of the component
StripAfter(text) ==
    LET startIdx == IF Includes(text, ExportDefault)
                    THEN IndexOf(text, <<"{">>, IndexOf(text, ExportDefault, 1))
                    ELSE 0
        lastBrace == IF startIdx = 0 THEN 0 ELSE LastBrace(text, startIdx, 0)
    IN  IF /\ lastBrace # 0
           /\ lastBrace < Len(text)
           /\ CharLen(Trim(Substring(text, lastBrace + 1))) > 10
        THEN SubSeq(text, 1, lastBrace)
        ELSE text

LineStart(s, i) == i = 1 \/ s[i - 1] = "\n"

\* s.replace(/^```(?:jsx|...)?\s*/gm, ''), scanning from s[i]
RECURSIVE RemoveFenceOpen(_, _)
RemoveFenceOpen(s, i) ==
    IF i > Len(s) THEN <<>>
    ELSE IF s[i] = Fence /\ LineStart(s, i)
         THEN RemoveFenceOpen(s,
                  SkipWs(s, IF i + 1 <= Len(s) /\ s[i + 1] = "jsx" THEN i + 2 ELSE i + 1))
         ELSE <<s[i]>> \o RemoveFenceOpen(s, i + 1)

\* the index after the match of /\s*$/ (m flag) at s[x], 0 if it does not match
WsToLineEnd(s, x) ==
    LET e == SkipWs(s, x)
        nls == {n \in x..(e - 1) : s[n] = "\n"}
    IN  IF e = Len(s) + 1 THEN e
        ELSE IF nls # {} THEN Max(nls)
        ELSE 0

\* s.replace(/```\s*$/gm, ''), scanning from s[i]
RECURSIVE RemoveFenceClose(_, _)
RemoveFenceClose(s, i) ==
    IF i > Len(s) THEN <<>>
    ELSE IF s[i] = Fence /\ WsToLineEnd(s, i + 1) # 0
         THEN RemoveFenceClose(s, WsToLineEnd(s, i + 1))
         ELSE <<s[i]>> \o RemoveFenceClose(s, i + 1)

\* the index after the match of ['"].*?['"];?\s*$ at s[q], 0 if none
ImportTail(s, q) ==
    LET ends == {c \in (q + 1)..Len(s) :
                    /\ s[c] \in {"'", "\""}
                    /\ \A n \in (q + 1)..(c - 1) : s[n] # "\n"
                    /\ WsToLineEnd(s, IF c + 1 <= Len(s) /\ s[c + 1] = ";"
                                      THEN c + 2 ELSE c + 1) # 0}
        c0 == Min(ends)
    IN  IF q <= Len(s) /\ s[q] \in {"'", "\""} /\ ends # {}
        THEN WsToLineEnd(s, IF c0 + 1 <= Len(s) /\ s[c0 + 1] = ";" THEN c0 + 2 ELSE c0 + 1)
        ELSE 0

\* the index after the match of /^import\s+[\s\S]*?from\s+['"].*?['"];?\s*$/m that
\* starts at s[i], 0 if none
ImportAt(s, i) ==
    LET froms == {f \in (i + 2)..Len(s) :
                    /\ s[f] = "from"
                    /\ f + 1 <= Len(s) /\ s[f + 1] \in WS
                    /\ ImportTail(s, SkipWs(s, f + 1)) # 0}
    IN  IF /\ s[i] = "import" /\ LineStart(s, i)
           /\ i + 1 <= Len(s) /\ s[i + 1] \in WS
           /\ froms # {}
        THEN ImportTail(s, SkipWs(s, Min(froms) + 1))
        ELSE 0

\* s.replace(/^import\s+[\s\S]*?from\s+['"].*?['"];?\s*$/gm, ''), scanning from s[i]
RECURSIVE RemoveImports(_, _)
RemoveImports(s, i) ==
    IF i > Len(s) THEN <<>>
    ELSE IF ImportAt(s, i) # 0 THEN RemoveImports(s, ImportAt(s, i))
    ELSE <<s[i]>> \o RemoveImports(s, i + 1)

\* step 4: final cleanup
Cleanup(text) ==
    Trim(RemoveImports(RemoveFenceClose(RemoveFenceOpen(text, 1), 1), 1))

ExtractReact(text) == Cleanup(StripAfter(StripBefore(StripFence(text))))

extractCode(raw, t) ==
    IF t = "GEOGEBRA_API" THEN ExtractGeogebra(Trim(raw)) ELSE ExtractReact(Trim(raw))


-----------------------------------------------------------------------------
(* quickSyntaxCheck *)

pairs(ch) == CASE ch = "{" -> "}" [] ch = "[" -> "]" [] ch = "(" -> ")"

Openers == {"{", "[", "("}

Closers == {"}", "]", ")"}

\* the text as the loop reads it, code[i] by code[i]: a fence is three backticks,
\* each of them a quote character; no other lexeme holds a quote or a bracket
RECURSIVE Characters(_)
Characters(code_) ==
    IF code_ = <<>> THEN <<>>
    ELSE (IF Head(code_) = Fence THEN <<BackTick, BackTick, BackTick>> ELSE <<Head(code_)>>)
         \o Characters(Tail(code_))

\* the error text: Unmatched '${ch}' at position ${i}
Unmatched(code_, i) ==
    <<"Unmatched", code_[i], "at position", ToString(CharLen(SubSeq(code_, 1, i - 1)))>>

\* the for loop from index i on: the stack it leaves (top last), the errors pushed,
\* and the value of inString after each character the loop went through
RECURSIVE BracketScan(_, _, _, _, _)
BracketScan(code_, i, stack, inString, stringChar) ==
    IF i > Len(code_) THEN [stack |-> stack, errors |-> <<>>, strings |-> <<>>]
    ELSE LET Continue(stack1, inString1, stringChar1) ==
                 LET rest == BracketScan(code_, i + 1, stack1, inString1, stringChar1)
                 IN  [rest EXCEPT !.strings = <<inString1>> \o @]
             Break(stack1) ==
                 [stack |-> stack1, errors |-> <<Unmatched(code_, i)>>,
                  strings |-> <<FALSE>>]
         IN  IF inString
             THEN IF code_[i] = stringChar /\ (i = 1 \/ code_[i - 1] # "\\")
                  THEN Continue(stack, FALSE, stringChar)
                  ELSE Continue(stack, TRUE, stringChar)
             ELSE IF code_[i] \in Quotes
                  THEN Continue(stack, TRUE, code_[i])
             ELSE IF code_[i] \in Openers
                  THEN Continue(Append(stack, pairs(code_[i])), FALSE, stringChar)
             ELSE IF code_[i] \in Closers
                  THEN IF stack = <<>>
                       THEN Break(stack)
                       ELSE IF stack[Len(stack)] # code_[i]
                            THEN Break(SubSeq(stack, 1, Len(stack) - 1))
                            ELSE Continue(SubSeq(stack, 1, Len(stack) - 1),
                                          FALSE, stringChar)
             ELSE Continue(stack, FALSE, stringChar)

\* the error text: Unclosed brackets: expected ${stack.reverse().join(', ')}
Unclosed(stack) == <<"Unclosed brackets: expected">> \o Reverse(stack)

ImportError == <<"Import statements are not allowed">>

ReturnError == <<"Component must have a return statement with JSX">>

HasImport(code_) ==
    Includes(code_, <<"import", " ">>) /\ ~Includes(code_, <<"/", "/", " ", "import">>)

HasReturn(code_) == Includes(code_, <<"return">>)

quickSyntaxCheck(code_) ==
    LET scan == BracketScan(Characters(code_), 1, <<>>, FALSE, "")
    IN  scan.errors
        \o (IF scan.stack # <<>> THEN <<Unclosed(scan.stack)>> ELSE <<>>)
        \o (IF HasImport(code_) THEN <<ImportError>> ELSE <<>>)
        \o (IF ~HasReturn(code_) THEN <<ReturnError>> ELSE <<>>)

-----------------------------------------------------------------------------
(* The agents: what each makes of the provider's answer *)

DefaultPlan == << <<"Generate the complete simulation based on the prompt">> >>

RECURSIVE SelectNumbered(_)
SelectNumbered(lines) ==
    IF lines = <<>> THEN <<>>
    ELSE (IF NumberDot(Trim(Head(lines))) # 0 THEN <<Head(lines)>> ELSE <<>>)
         \o SelectNumbered(Tail(lines))

RECURSIVE MapStripNumber(_)
MapStripNumber(lines) ==
    IF lines = <<>> THEN <<>>
    ELSE <<Trim(StripNumber(Head(lines)))>> \o MapStripNumber(Tail(lines))

NonEmpty(x) == x # <<>>

\* plannerAgent without the fallback to the default step
PlannerStepsNoFallback(response) ==
    SelectSeq(MapStripNumber(SelectNumbered(SplitLines(response))), NonEmpty)

\* plannerAgent, the provider having answered response
PlannerSteps(response) ==
    LET steps == SelectSeq(MapStripNumber(SelectNumbered(SplitLines(response))), NonEmpty)
    IN  IF Len(steps) > 0 THEN steps ELSE DefaultPlan

ToUpperCase(t) == IF t = "valid" THEN "VALID" ELSE IF t = "a" THEN "A" ELSE t

IsValidToken(response) ==
    LET r == Trim(response)
    IN  [i \in 1..Len(r) |-> ToUpperCase(r[i])] = <<"VALID">>

ErrorLine(line) == Trim(line) # <<>> /\ Head(line) # "#"

\* a validator that takes every answer but the acceptance token for a rejection
SemanticVerdictStrict(response) ==
    LET errs == MapStripNumber(SelectSeq(SplitLines(response), ErrorLine))
    IN  IF IsValidToken(response) THEN [valid |-> TRUE, errors |-> <<>>]
        ELSE [valid |-> FALSE, errors |-> errs]

\* validatorAgent, the provider having answered response
SemanticVerdict(response) ==
    LET errs == MapStripNumber(SelectSeq(SplitLines(response), ErrorLine))
    IN  IF IsValidToken(response) THEN [valid |-> TRUE, errors |-> <<>>]
        ELSE [valid |-> Len(errs) = 0, errors |-> errs]

\* validatorAgent up to its provider call: the verdict returned without one
JsonVerdict(code_) ==
    IF JSONParse(code_) THEN [valid |-> TRUE, errors |-> <<>>]
    ELSE [valid |-> FALSE, errors |-> << <<"Invalid JSON format">> >>]

\* a validator that fails closed
FailClosedVerdict == [valid |-> FALSE, errors |-> << <<"Validator unavailable">> >>]

FailOpenVerdict == [valid |-> TRUE, errors |-> <<>>]


-----------------------------------------------------------------------------
(* What the provider may answer: a few texts per agent *)

FencedComponent ==
    <<Fence, "jsx", "\n", "export default function", " ", "a", "(", ")", " ", "{", "\n",
      "return", " ", "(", "a", ")", "\n", "}", "\n", Fence>>

BrokenComponent ==
    <<"export default function", " ", "a", "(", ")", " ", "{", "return", " ", "(", "}">>

TrailingCommaJson ==
    <<"{", "\"", "commands", "\"", ":", " ", "[",
      "\"", "a", " ", "=", " ", "a", "(", "1", ",", "1", ",", "1", ".", "1", ")", "\"",
      ",", "]", "}">>

ValidJson == <<"{", "\"", "commands", "\"", ":", " ", "[", "\"", "a", "\"", "]", "}">>

\* an answer cut short: a word, then a code fence that is opened and never closed
UnclosedFenceComponent ==
    <<"a", " ", Fence, "jsx", "\n", "export default function", " ", "a", "(", ")", " ",
      "{", "return", " ", "(", "a", ")", "}">>

CodeAnswers ==
    {FencedComponent, BrokenComponent, TrailingCommaJson, ValidJson, UnclosedFenceComponent}

NumberedPlan == <<"1", ".", " ", "a", "\n", " ", "1", "1", ".", " ", "a", "a">>

ProsePlan == <<"a", " ", "a", "\n", "a">>

EmptyStepPlan == <<"1", ".", " ">>

PlanAnswers == {NumberedPlan, ProsePlan, EmptyStepPlan}

ValidAnswer == <<"valid", "\n">>

DefectAnswer == <<"1", ".", " ", "a", "\n", "1", ".", " ", "a", "a">>

\* the acceptance token, two numbered defects, and a heading line alone
VerdictAnswers == {ValidAnswer, DefectAnswer, <<"#", " ", "a">>}

\* The agents' functions on the answers above, tabulated once: an action looks its
\* value up instead of evaluating the function again in every state.
Types == {"REACT", "GEOGEBRA"}

ExtractedCode == [t \in Types |-> [raw \in CodeAnswers |-> extractCode(raw, t)]]

\* every text ctx.code can hold
Candidates == {<<>>} \cup {ExtractedCode[t][raw] : t \in Types, raw \in CodeAnswers}

SyntaxErrors == [c \in Candidates |-> quickSyntaxCheck(c)]

JsonVerdicts == [c \in Candidates |-> JsonVerdict(c)]

PlannedSteps == [response \in PlanAnswers |-> PlannerSteps(response)]

SemanticVerdicts == [response \in VerdictAnswers |-> SemanticVerdict(response)]

-----------------------------------------------------------------------------
(* agentGenerateSimulation *)

MAX_ATTEMPTS == 3

NoCall == [agent |-> "none", plan |-> <<>>, code |-> <<>>, errors |-> <<>>]

NoAnswer == [agent |-> "none", ok |-> TRUE, text |-> <<>>]

NoResult == [code |-> <<>>, plan |-> <<>>, attempts |-> -1]

NoValidation == [valid |-> FALSE, errors |-> <<>>]

Terminal == {"accepted", "exhausted", "error"}

\* no text function is under study
TextIdle ==
    /\ candidate = <<>>
    /\ defects = <<>>
    /\ rawText = <<>>
    /\ kind = "REACT"
    /\ extracted = <<>>
    /\ applied = FALSE

NoOutcome == [status |-> "pending", defined |-> FALSE, text |-> <<>>]

\* no generateContent call is under study
AdapterIdle ==
    /\ gpc = "idle"
    /\ provider = "deepseek"
    /\ model = <<>>
    /\ requests = <<>>
    /\ responses = <<>>
    /\ outcome = NoOutcome

\* the KV holds no entry for the key
NoKey == [count |-> 0, expireAt |-> -1]

\* no rateLimit call is under study
LimiterIdle ==
    /\ now = 0
    /\ kvConfigured = FALSE
    /\ key = NoKey
    /\ lifetime = 0
    /\ callers = <<>>
    /\ history = <<>>

Init ==
    /\ pc = "plan"
    /\ type \in Types
    /\ plan = <<>>
    /\ code = <<>>
    /\ errors = <<>>
    /\ attempts = 0
    /\ result = NoResult
    /\ pending = NoCall
    /\ inFlight = 0
    /\ calls = <<>>
    /\ validation = NoValidation
    /\ answer = NoAnswer
    /\ verdicts = <<>>
    /\ checked = FALSE
    /\ TextIdle
    /\ AdapterIdle
    /\ LimiterIdle

\* a call that is sent a second time
IssueTwice(agent, plan_, code_, errors_) ==
    /\ pending' = [agent |-> agent, plan |-> plan_, code |-> code_, errors |-> errors_]
    /\ inFlight' = inFlight + 1
    /\ calls' = Append(Append(calls, agent), agent)

\* generateContent is called on behalf of agent
Issue(agent, plan_, code_, errors_) ==
    /\ pending' = [agent |-> agent, plan |-> plan_, code |-> code_, errors |-> errors_]
    /\ inFlight' = inFlight + 1
    /\ calls' = Append(calls, agent)

\* the awaited generateContent call of agent resolves to text
Resolves(agent, text) ==
    /\ pending.agent = agent
    /\ pending' = NoCall
    /\ inFlight' = inFlight - 1
    /\ answer' = [agent |-> agent, ok |-> TRUE, text |-> text]

\* the awaited generateContent call of agent rejects
Rejects(agent) ==
    /\ pending.agent = agent
    /\ pending' = NoCall
    /\ inFlight' = inFlight - 1
    /\ answer' = [agent |-> agent, ok |-> FALSE, text |-> <<>>]

\* a result that carries the default plan
MakeResultReplanned == [code |-> code, plan |-> DefaultPlan, attempts |-> attempts]

\* a result that counts the validation as an attempt
MakeResultCounted == [code |-> code, plan |-> plan, attempts |-> attempts + 1]

\* the AgentResult of both return statements
MakeResult == [code |-> code, plan |-> plan, attempts |-> attempts]

\* a loop that tests <= instead of <
LoopConditionInclusive == attempts <= MAX_ATTEMPTS

\* while (ctx.attempts < MAX_ATTEMPTS)
LoopCondition == attempts < MAX_ATTEMPTS

\* an attempt counted twice
NextAttemptsTwice == attempts + 2

\* ctx.attempts++
NextAttempts == attempts + 1

CallPlanner ==
    /\ pc = "plan"
    /\ Issue("planner", <<>>, <<>>, <<>>)
    /\ pc' = "plan_await"
    /\ UNCHANGED <<type, plan, code, errors, attempts, result, validation, answer,
                   verdicts, checked>>
    /\ UNCHANGED outside

PlannerReturns ==
    /\ pc = "plan_await"
    /\ \E response \in PlanAnswers :
          /\ Resolves("planner", response)
          /\ plan' = PlannedSteps[response]
    /\ pc' = "generate"
    /\ UNCHANGED <<type, code, errors, attempts, result, calls, validation, verdicts,
                   checked>>
    /\ UNCHANGED outside

PlannerFails ==
    /\ pc = "plan_await"
    /\ Rejects("planner")
    /\ plan' = DefaultPlan
    /\ pc' = "generate"
    /\ UNCHANGED <<type, code, errors, attempts, result, calls, validation, verdicts,
                   checked>>
    /\ UNCHANGED outside

\* the Generator called while the Planner's call is still awaited
CallGeneratorUnawaited ==
    /\ pc = "plan_await"
    /\ Issue("generator", plan, <<>>, <<>>)
    /\ pc' = "gen_await"
    /\ UNCHANGED <<type, plan, code, errors, attempts, result, validation, answer,
                   verdicts, checked>>
    /\ UNCHANGED outside

\* const rawCode = await codeGeneratorAgent(ctx, options, systemPrompt)
CallGenerator ==
    /\ pc = "generate"
    /\ Issue("generator", plan, <<>>, <<>>)
    /\ pc' = "gen_await"
    /\ UNCHANGED <<type, plan, code, errors, attempts, result, validation, answer,
                   verdicts, checked>>
    /\ UNCHANGED outside

GeneratorReturns ==
    /\ pc = "gen_await"
    /\ \E rawCode \in CodeAnswers :
          /\ Resolves("generator", rawCode)
          /\ code' = ExtractedCode[type][rawCode]
    /\ checked' = FALSE
    /\ pc' = "loop"
    /\ UNCHANGED <<type, plan, errors, attempts, result, calls, validation, verdicts>>
    /\ UNCHANGED outside

\* a generator failure that is caught and ignored
GeneratorFailsSwallowed ==
    /\ pc = "gen_await"
    /\ Rejects("generator")
    /\ pc' = "loop"
    /\ UNCHANGED <<type, plan, code, errors, attempts, result, calls, validation,
                   verdicts, checked>>
    /\ UNCHANGED outside

GeneratorFails ==
    /\ pc = "gen_await"
    /\ Rejects("generator")
    /\ pc' = "error"
    /\ UNCHANGED <<type, plan, code, errors, attempts, result, calls, validation,
                   verdicts, checked>>
    /\ UNCHANGED outside

\* validatorAgent for GEOGEBRA: the verdict is that of JSON.parse
ValidateJson ==
    /\ pc = "loop"
    /\ LoopCondition
    /\ type = "GEOGEBRA"
    /\ validation' = JsonVerdicts[code]
    /\ verdicts' = Append(verdicts, JsonVerdicts[code].valid)
    /\ checked' = TRUE
    /\ pc' = "verdict"
    /\ UNCHANGED <<type, plan, code, errors, attempts, result, pending, inFlight, calls, answer>>
    /\ UNCHANGED outside

\* validatorAgent for REACT: quickSyntaxCheck reports errors
ValidateSyntax ==
    /\ pc = "loop"
    /\ LoopCondition
    /\ type # "GEOGEBRA"
    /\ Len(SyntaxErrors[code]) > 0
    /\ validation' = [valid |-> FALSE, errors |-> SyntaxErrors[code]]
    /\ verdicts' = Append(verdicts, FALSE)
    /\ checked' = TRUE
    /\ pc' = "verdict"
    /\ UNCHANGED <<type, plan, code, errors, attempts, result, pending, inFlight, calls, answer>>
    /\ UNCHANGED outside

\* a validator that asks the provider whatever quickSyntaxCheck reported
CallValidatorUnchecked ==
    /\ pc = "loop"
    /\ LoopCondition
    /\ type # "GEOGEBRA"
    /\ Issue("validator", <<>>, code, <<>>)
    /\ checked' = TRUE
    /\ pc' = "val_await"
    /\ UNCHANGED <<type, plan, code, errors, attempts, result, validation, answer,
                   verdicts>>
    /\ UNCHANGED outside

\* validatorAgent for REACT: quickSyntaxCheck passes, the provider is asked
CallValidator ==
    /\ pc = "loop"
    /\ LoopCondition
    /\ type # "GEOGEBRA"
    /\ Len(SyntaxErrors[code]) = 0
    /\ Issue("validator", <<>>, code, <<>>)
    /\ checked' = TRUE
    /\ pc' = "val_await"
    /\ UNCHANGED <<type, plan, code, errors, attempts, result, validation, answer,
                   verdicts>>
    /\ UNCHANGED outside

ValidatorReturns ==
    /\ pc = "val_await"
    /\ \E response \in VerdictAnswers :
          /\ Resolves("validator", response)
          /\ validation' = SemanticVerdicts[response]
          /\ verdicts' = Append(verdicts, SemanticVerdicts[response].valid)
    /\ pc' = "verdict"
    /\ UNCHANGED <<type, plan, code, errors, attempts, result, calls, checked>>
    /\ UNCHANGED outside

ValidatorFails ==
    /\ pc = "val_await"
    /\ Rejects("validator")
    /\ validation' = FailOpenVerdict
    /\ verdicts' = Append(verdicts, FailOpenVerdict.valid)
    /\ pc' = "verdict"
    /\ UNCHANGED <<type, plan, code, errors, attempts, result, calls, checked>>
    /\ UNCHANGED outside

\* if (validation.valid) return {...}
Accept ==
    /\ pc = "verdict"
    /\ validation.valid
    /\ result' = MakeResult
    /\ pc' = "accepted"
    /\ UNCHANGED <<type, plan, code, errors, attempts, pending, inFlight, calls, validation,
                   answer, verdicts, checked>>
    /\ UNCHANGED outside

\* ctx.errors = validation.errors; ctx.attempts++; refinerAgent(ctx, ...)
CallRefiner ==
    /\ pc = "verdict"
    /\ ~validation.valid
    /\ errors' = validation.errors
    /\ attempts' = NextAttempts
    /\ Issue("refiner", <<>>, code, validation.errors)
    /\ pc' = "ref_await"
    /\ UNCHANGED <<type, plan, code, result, validation, answer, verdicts, checked>>
    /\ UNCHANGED outside

RefinerReturns ==
    /\ pc = "ref_await"
    /\ \E refinedRaw \in CodeAnswers :
          /\ Resolves("refiner", refinedRaw)
          /\ code' = ExtractedCode[type][refinedRaw]
    /\ checked' = FALSE
    /\ pc' = "loop"
    /\ UNCHANGED <<type, plan, errors, attempts, result, calls, validation, verdicts>>
    /\ UNCHANGED outside

\* refinerAgent throws and nothing catches it
RefinerFails ==
    /\ pc = "ref_await"
    /\ Rejects("refiner")
    /\ pc' = "error"
    /\ UNCHANGED <<type, plan, code, errors, attempts, result, calls, validation,
                   verdicts, checked>>
    /\ UNCHANGED outside

\* a loop that, at max attempts, spins without returning
ExhaustedSpins ==
    /\ pc = "loop"
    /\ ~LoopCondition
    /\ pc' = "loop"
    /\ UNCHANGED <<type, plan, code, errors, attempts, result, pending, inFlight, calls,
                   validation, answer, verdicts, checked>>
    /\ UNCHANGED outside

\* the while loop ends: max attempts reached, return best effort
Exhausted ==
    /\ pc = "loop"
    /\ ~LoopCondition
    /\ result' = MakeResult
    /\ pc' = "exhausted"
    /\ UNCHANGED <<type, plan, code, errors, attempts, pending, inFlight, calls, validation,
                   answer, verdicts, checked>>
    /\ UNCHANGED outside

Next ==
    \/ CallPlanner
    \/ PlannerReturns
    \/ PlannerFails
    \/ CallGenerator
    \/ GeneratorReturns
    \/ GeneratorFails
    \/ ValidateJson
    \/ ValidateSyntax
    \/ CallValidator
    \/ ValidatorReturns
    \/ ValidatorFails
    \/ Accept
    \/ CallRefiner
    \/ RefinerReturns
    \/ RefinerFails
    \/ Exhausted

Spec == Init /\ [][Next]_vars

\* every awaited call completes or fails, and the continuation then runs
FairSpec == Spec /\ WF_vars(Next)


-----------------------------------------------------------------------------
(* quickSyntaxCheck on its own: one call, on every candidate up to a bound *)

\* no generation request is running
CtxIdle ==
    /\ pc = "idle"
    /\ type = "REACT"
    /\ plan = <<>>
    /\ code = <<>>
    /\ errors = <<>>
    /\ attempts = 0
    /\ result = NoResult
    /\ pending = NoCall
    /\ inFlight = 0
    /\ calls = <<>>
    /\ validation = NoValidation
    /\ answer = NoAnswer
    /\ verdicts = <<>>
    /\ checked = FALSE

\* the texts of at most n tokens of A
Texts(A, n) == UNION {[1..k -> A] : k \in 0..n}

MaxBody == 6

\* a body of brackets, quotes and backslashes, followed by nothing, by a return
\* statement, by an import line and a return, or by an import line, a commented-out
\* import and a return
SyntaxInputs ==
    {body \o ending :
        body \in Texts({"(", ")", "}", "\"", "\\"}, MaxBody),
        ending \in {<<>>, <<" ", "return">>, <<"\n", "import", " ", "return">>,
                    <<"\n", "import", " ", "a", "\n", "/", "/", " ", "import", " ",
                      "return">>}}

SyntaxInit ==
    /\ CtxIdle
    /\ candidate \in SyntaxInputs
    /\ defects = <<>>
    /\ rawText = <<>>
    /\ kind = "REACT"
    /\ extracted = <<>>
    /\ applied = FALSE
    /\ AdapterIdle
    /\ LimiterIdle

\* const syntaxErrors = quickSyntaxCheck(code)
CheckSyntax ==
    /\ ~applied
    /\ defects' = quickSyntaxCheck(candidate)
    /\ applied' = TRUE
    /\ UNCHANGED <<candidate, rawText, kind, extracted, ctxVars, adapterVars, limiterVars>>

SyntaxSpec == SyntaxInit /\ [][CheckSyntax]_vars

-----------------------------------------------------------------------------
(* extractCode on its own: one call, on every raw text of a bounded set *)

MaxRaw == 5

\* the texts made of the tokens of a component answer, the texts that begin a
\* commands object and go on with the tokens of a command list answer, and the
\* texts that begin a component and go on with braces, quotes and prose
RawInputs ==
    Texts({Fence, "\n", "a", "export default function", "{", "}"}, MaxRaw)
    \cup {<<"{">> \o CommandsKey \o <<":">> \o t :
             t \in Texts({"1", ",", "}", "]", "[", "a"}, MaxRaw)}
    \cup {<<"export default function", "{">> \o t :
             t \in Texts({"\"", "{", "}", "words"}, MaxRaw)}

\* the type tags extractCode is called with: its own and the orchestrator's
Kinds == {"REACT", "GEOGEBRA_API", "GEOGEBRA"}

ExtractInit ==
    /\ CtxIdle
    /\ candidate = <<>>
    /\ defects = <<>>
    /\ rawText \in RawInputs
    /\ kind \in Kinds
    /\ extracted = <<>>
    /\ applied = FALSE
    /\ AdapterIdle
    /\ LimiterIdle

\* extractCode(raw, type)
ApplyExtract ==
    /\ ~applied
    /\ extracted' = extractCode(rawText, kind)
    /\ applied' = TRUE
    /\ UNCHANGED <<candidate, defects, rawText, kind, ctxVars, adapterVars, limiterVars>>

ExtractSpec == ExtractInit /\ [][ApplyExtract]_vars

-----------------------------------------------------------------------------
(* generateContent: one call of the completion provider adapter *)

Providers == {"gemini", "deepseek", "qwen", "ollama"}

OpenAICompatible == {"deepseek", "qwen", "ollama"}

\* values of options.model: undefined, or a model name as a sequence of lexemes
ModelOptions ==
    {<<>>, <<"gemini-1.5", "-flash">>, <<"gemini-2.0", "-flash">>, <<"gemini-3", "-pro">>,
     <<"deepseek-chat">>}

\* const modelName = options.model || 'gemini-1.5-flash'
ModelName == IF model # <<>> THEN model ELSE <<"gemini-1.5", "-flash">>

\* modelName.includes('gemini-3') || modelName.includes('gemini-2.0')
IsGemini3OrNewer == Includes(ModelName, <<"gemini-3">>) \/ Includes(ModelName, <<"gemini-2.0">>)

\* provider.charAt(0).toUpperCase() + provider.slice(1)
ProviderLabel ==
    CASE provider = "deepseek" -> "Deepseek"
      [] provider = "qwen" -> "Qwen"
      [] provider = "ollama" -> "Ollama"
      [] provider = "gemini" -> "Gemini"

\* What the upstream may answer.  ok: the request succeeded (response.ok, or the SDK
\* call resolved); defined: the answer has a text field that is a string; text: that
\* string, or the error message when ok is FALSE.
ErrorResponse == [ok |-> FALSE, defined |-> FALSE, text |-> <<"quota exceeded">>]

\* the request itself rejects: no response at all
NetworkFailure == [ok |-> FALSE, defined |-> FALSE, text |-> <<"fetch failed">>]

\* a text, the empty text, no text field
OkResponses ==
    {[ok |-> TRUE, defined |-> TRUE, text |-> <<"a">>],
     [ok |-> TRUE, defined |-> TRUE, text |-> <<>>],
     [ok |-> TRUE, defined |-> FALSE, text |-> <<>>]}

Failures == {ErrorResponse, NetworkFailure}

\* the message thrown for failure f of a fetch: that of line 88 or 306 for an error
\* response, the rejection's own otherwise
FetchError(prefix, f) == IF f = ErrorResponse THEN prefix \o f.text ELSE f.text

\* return v
Returns(v) == [status |-> "returned", defined |-> v.defined, text |-> v.text]

\* throw new Error(message)
Throws(message) == [status |-> "thrown", defined |-> FALSE, text |-> message]

\* response.text ?? ''
TextOrEmpty(r) == [defined |-> TRUE, text |-> IF r.defined THEN r.text ELSE <<>>]

AdapterInit ==
    /\ CtxIdle
    /\ TextIdle
    /\ LimiterIdle
    /\ gpc = "entry"
    /\ provider \in Providers
    /\ model \in ModelOptions
    /\ requests = <<>>
    /\ responses = <<>>
    /\ outcome = NoOutcome

\* callOpenAICompatible up to its fetch
CallOpenAICompatible ==
    /\ gpc = "entry"
    /\ provider \in OpenAICompatible
    /\ requests' = Append(requests, "chat/completions")
    /\ gpc' = "fetch"
    /\ UNCHANGED <<provider, model, responses, outcome, ctxVars, textVars,
                   limiterVars>>

\* return data.choices[0].message.content
OpenAIReturns ==
    /\ gpc = "fetch"
    /\ \E r \in OkResponses :
          /\ responses' = Append(responses, r)
          /\ outcome' = Returns(r)
    /\ gpc' = "done"
    /\ UNCHANGED <<provider, model, requests, ctxVars, textVars,
                   limiterVars>>

\* if (!response.ok) throw new Error(label + ' API Error: ' + error)
OpenAIFails ==
    /\ gpc = "fetch"
    /\ \E f \in Failures :
          /\ responses' = Append(responses, f)
          /\ outcome' = Throws(FetchError(<<ProviderLabel, " API Error: ">>, f))
    /\ gpc' = "done"
    /\ UNCHANGED <<provider, model, requests, ctxVars, textVars,
                   limiterVars>>

\* Gemini 3 and newer: ai.models.generateContent of @google/genai
CallGenAI ==
    /\ gpc = "entry"
    /\ provider \notin OpenAICompatible
    /\ IsGemini3OrNewer
    /\ requests' = Append(requests, "genai")
    /\ gpc' = "sdk"
    /\ UNCHANGED <<provider, model, responses, outcome, ctxVars, textVars,
                   limiterVars>>

\* return response.text ?? ''
GenAIReturns ==
    /\ gpc = "sdk"
    /\ \E r \in OkResponses :
          /\ responses' = Append(responses, r)
          /\ outcome' = Returns(TextOrEmpty(r))
    /\ gpc' = "done"
    /\ UNCHANGED <<provider, model, requests, ctxVars, textVars,
                   limiterVars>>

\* an SDK error after which the SDK call is made again
GenAIFailsRetries ==
    /\ gpc = "sdk"
    /\ \E f \in Failures : responses' = Append(responses, f)
    /\ requests' = Append(requests, "genai")
    /\ gpc' = "sdk"
    /\ UNCHANGED <<provider, model, outcome, ctxVars, textVars,
                   limiterVars>>

\* catch (error): return generateContentViaRestAPI(...), up to its fetch
GenAIFails ==
    /\ gpc = "sdk"
    /\ \E f \in Failures : responses' = Append(responses, f)
    /\ requests' = Append(requests, "rest")
    /\ gpc' = "rest"
    /\ UNCHANGED <<provider, model, outcome, ctxVars, textVars,
                   limiterVars>>

\* return data.candidates[0].content.parts[0].text
RestReturns ==
    /\ gpc = "rest"
    /\ \E r \in OkResponses :
          /\ responses' = Append(responses, r)
          /\ outcome' = Returns(r)
    /\ gpc' = "done"
    /\ UNCHANGED <<provider, model, requests, ctxVars, textVars,
                   limiterVars>>

\* if (!response.ok) throw new Error('Gemini 3 REST API Error: ' + error)
RestFails ==
    /\ gpc = "rest"
    /\ \E f \in Failures :
          /\ responses' = Append(responses, f)
          /\ outcome' = Throws(FetchError(<<"Gemini 3 REST API Error: ">>, f))
    /\ gpc' = "done"
    /\ UNCHANGED <<provider, model, requests, ctxVars, textVars,
                   limiterVars>>

\* older Gemini models: @google/generative-ai
CallGenerativeAI ==
    /\ gpc = "entry"
    /\ provider \notin OpenAICompatible
    /\ ~IsGemini3OrNewer
    /\ requests' = Append(requests, "generative-ai")
    /\ gpc' = "legacy"
    /\ UNCHANGED <<provider, model, responses, outcome, ctxVars, textVars,
                   limiterVars>>

\* return result.response.text(): a string, the empty one when there is no text
GenerativeAIReturns ==
    /\ gpc = "legacy"
    /\ \E r \in OkResponses :
          /\ responses' = Append(responses, r)
          /\ outcome' = Returns(TextOrEmpty(r))
    /\ gpc' = "done"
    /\ UNCHANGED <<provider, model, requests, ctxVars, textVars,
                   limiterVars>>

\* the SDK call rejects and nothing catches it
GenerativeAIFails ==
    /\ gpc = "legacy"
    /\ \E f \in Failures :
          /\ responses' = Append(responses, f)
          /\ outcome' = Throws(f.text)
    /\ gpc' = "done"
    /\ UNCHANGED <<provider, model, requests, ctxVars, textVars,
                   limiterVars>>

AdapterNext ==
    \/ CallOpenAICompatible
    \/ OpenAIReturns
    \/ OpenAIFails
    \/ CallGenAI
    \/ GenAIReturns
    \/ GenAIFails
    \/ RestReturns
    \/ RestFails
    \/ CallGenerativeAI
    \/ GenerativeAIReturns
    \/ GenerativeAIFails

AdapterSpec == AdapterInit /\ [][AdapterNext]_vars

-----------------------------------------------------------------------------
(* rateLimit: concurrent calls for one action and one identifier *)

RateLimits ==
    [chatbot      |-> [limit |-> 20,  windowSeconds |-> 60],
     analysis     |-> [limit |-> 5,   windowSeconds |-> 300],
     simulation   |-> [limit |-> 10,  windowSeconds |-> 600],
     login        |-> [limit |-> 5,   windowSeconds |-> 900],
     registration |-> [limit |-> 3,   windowSeconds |-> 3600],
     api          |-> [limit |-> 100, windowSeconds |-> 60]]

\* const config = RateLimits[action], for the action under study
config == RateLimits.registration

\* the calls that may be in progress at once
NumCallers == 2

\* the calls made in all
MaxCalls == 5

\* the clock moves in steps of half a window, this many times
MaxTicks == 2

TickSeconds == config.windowSeconds \div 2

CallerIdle == [pc |-> "idle", count |-> 0, lifetime |-> 0]

LimiterInit ==
    /\ CtxIdle
    /\ TextIdle
    /\ AdapterIdle
    /\ now = 0
    /\ kvConfigured \in BOOLEAN
    /\ key = NoKey
    /\ lifetime = 0
    /\ callers = [id \in 1..NumCallers |-> CallerIdle]
    /\ history = <<>>

\* a RateLimitResult (resetAt in seconds), with what the log adds to it: the count the
\* call observed, the lifetime of the entry it incremented, whether it went by the KV
Result(success, remaining, resetAt, count, life, viaKV) ==
    [success |-> success, remaining |-> remaining, limit |-> config.limit,
     resetAt |-> resetAt, at |-> now, count |-> count, lifetime |-> life,
     viaKV |-> viaKV]

\* the result of both degraded paths: allow the request
Allowed == Result(TRUE, config.limit, now + config.windowSeconds, 0, 0, FALSE)

\* a check that lets one request more through
BlockedAboveNext(count) == count > config.limit + 1

\* const blocked = count > config.limit
Blocked(count) == count > config.limit

\* Math.max(0, config.limit - count)
Remaining(count) == IF config.limit - count > 0 THEN config.limit - count ELSE 0

\* kv.ttl(key): -2 without the entry, -1 without an expiry
Ttl == IF key.count = 0 THEN -2
       ELSE IF key.expireAt = -1 THEN -1
       ELSE key.expireAt - now

\* if (!kv) return { success: true, ... }
RateLimitWithoutKV ==
    /\ ~kvConfigured
    /\ Len(history) < MaxCalls
    /\ history' = Append(history, Allowed)
    /\ UNCHANGED <<now, kvConfigured, key, lifetime, callers, ctxVars, textVars,
                   adapterVars>>

\* rateLimit is entered and reaches await kv.incr(key)
RateLimitEnter ==
    /\ kvConfigured
    /\ Len(history) + Cardinality({id \in 1..NumCallers : callers[id].pc # "idle"})
           < MaxCalls
    /\ \E id \in 1..NumCallers :
          /\ callers[id].pc = "idle"
          /\ callers' = [callers EXCEPT ![id].pc = "incr"]
    /\ UNCHANGED <<now, kvConfigured, key, lifetime, history, ctxVars, textVars,
                   adapterVars>>

\* the KV runs INCR: the entry is created at 1 without an expiry, or counted up;
\* then if (count === 1) decides what the caller awaits next
KvIncr ==
    /\ \E id \in 1..NumCallers :
          /\ callers[id].pc = "incr"
          /\ key' = [key EXCEPT !.count = key.count + 1]
          /\ lifetime' = IF key.count = 0 THEN lifetime + 1 ELSE lifetime
          /\ callers' = [callers EXCEPT ![id] =
                            [pc |-> IF key'.count = 1 THEN "expire" ELSE "ttl",
                             count |-> key'.count,
                             lifetime |-> lifetime']]
    /\ UNCHANGED <<now, kvConfigured, history, ctxVars, textVars, adapterVars>>

\* the KV runs EXPIRE key windowSeconds
KvExpire ==
    /\ \E id \in 1..NumCallers :
          /\ callers[id].pc = "expire"
          /\ key' = IF key.count = 0 THEN key
                    ELSE [key EXCEPT !.expireAt = now + config.windowSeconds]
          /\ callers' = [callers EXCEPT ![id].pc = "ttl"]
    /\ UNCHANGED <<now, kvConfigured, lifetime, history, ctxVars, textVars, adapterVars>>

\* the KV runs TTL, and rateLimit returns its result
KvTtl ==
    /\ \E id \in 1..NumCallers :
          /\ callers[id].pc = "ttl"
          /\ history' = Append(history,
                 Result(~Blocked(callers[id].count),
                        Remaining(callers[id].count),
                        now + (IF Ttl > 0 THEN Ttl ELSE config.windowSeconds),
                        callers[id].count, callers[id].lifetime, TRUE))
          /\ callers' = [callers EXCEPT ![id] = CallerIdle]
    /\ UNCHANGED <<now, kvConfigured, key, lifetime, ctxVars, textVars, adapterVars>>

\* a KV call throws: catch (error) allows the request
KvFails ==
    /\ \E id \in 1..NumCallers :
          /\ callers[id].pc \in {"incr", "expire", "ttl"}
          /\ history' = Append(history, Allowed)
          /\ callers' = [callers EXCEPT ![id] = CallerIdle]
    /\ UNCHANGED <<now, kvConfigured, key, lifetime, ctxVars, textVars, adapterVars>>

\* time passes; the KV drops the entry once its expiry is reached
Tick ==
    /\ now < MaxTicks * TickSeconds
    /\ now' = now + TickSeconds
    /\ key' = IF key.expireAt # -1 /\ key.expireAt <= now' THEN NoKey ELSE key
    /\ UNCHANGED <<kvConfigured, lifetime, callers, history, ctxVars, textVars,
                   adapterVars>>

LimiterNext ==
    \/ RateLimitWithoutKV
    \/ RateLimitEnter
    \/ KvIncr
    \/ KvExpire
    \/ KvTtl
    \/ KvFails
    \/ Tick

LimiterSpec == LimiterInit /\ [][LimiterNext]_vars

-----------------------------------------------------------------------------
(* Properties *)

RefinerCalls == Cardinality({i \in 1..Len(calls) : calls[i] = "refiner"})

Returned == pc \in {"accepted", "exhausted"}

\* no line of text, trimmed, starts with a number and a dot
NoNumberedLine(text) ==
    \A i \in 1..Len(SplitLines(text)) : NumberDot(Trim(SplitLines(text)[i])) = 0

\* C1: the attempt counter stays within 0..MAX_ATTEMPTS in every state and in every
\* returned result, and no more than MAX_ATTEMPTS refine cycles are started.
C1_AttemptsBounded ==
    /\ attempts \in 0..MAX_ATTEMPTS
    /\ Returned => result.attempts \in 0..MAX_ATTEMPTS
    /\ RefinerCalls <= MAX_ATTEMPTS

C1_Witness == pc = "exhausted" /\ result.attempts = MAX_ATTEMPTS /\ RefinerCalls = MAX_ATTEMPTS

\* C2 (as claimed): when the Refiner's provider call fails the run does not end in an
\* error but returns the candidate it held with the incremented attempt count, so
\* that an error can only come from the Generator's provider call.
C2_RefinerFailureReturns ==
    /\ (answer.agent = "refiner" /\ ~answer.ok) =>
           (pc # "error" /\ result = [code |-> code, plan |-> plan, attempts |-> attempts])
    /\ pc = "error" => answer.agent = "generator"

\* C3 (as claimed): every candidate that is returned was handed to the validator,
\* and the exhausted exit follows a rejected verdict on the candidate it returns.
C3_ReturnedCandidateValidated ==
    /\ Returned => checked
    /\ pc = "exhausted" => (~validation.valid /\ attempts = MAX_ATTEMPTS)

\* C4 (as claimed): after the verdicts reject, reject, reject the result has
\* attempts = 3 and carries the last candidate, which is one the validator rejected.
C4_ThreeRejects ==
    (Returned /\ verdicts = <<FALSE, FALSE, FALSE>>) =>
        /\ result.attempts = 3
        /\ result.code = code
        /\ checked /\ ~validation.valid

\* C5: once the Generator's provider call has failed the run has ended in an error,
\* there is no result, and no validator or refiner call was made.
C5_GeneratorFailureFatal ==
    (answer.agent = "generator" /\ ~answer.ok) =>
        /\ pc = "error"
        /\ result = NoResult
        /\ pending = NoCall
        /\ calls = <<"planner", "generator">>
        /\ verdicts = <<>>

C5_Witness == pc = "error" /\ answer = [agent |-> "generator", ok |-> FALSE, text |-> <<>>]

\* C6: planning never ends the run; a failed provider call and an answer without a
\* numbered line both leave the single default step as the plan, and the plan handed
\* to the Generator is never empty.
C6_PlanningNeverAborts ==
    /\ pc = "error" => answer.agent # "planner"
    /\ pc \notin {"plan", "plan_await"} =>
           (plan # <<>> /\ \A i \in 1..Len(plan) : plan[i] # <<>>)
    /\ pending.agent = "generator" => (pending.plan = plan /\ plan # <<>>)
    /\ (answer.agent = "planner" /\ (~answer.ok \/ NoNumberedLine(answer.text))) =>
           (pc \in {"generate", "gen_await"} /\ plan = DefaultPlan)

C6_Witness ==
    /\ pending.agent = "generator"
    /\ answer.agent = "planner" /\ answer.ok /\ NoNumberedLine(answer.text)
    /\ pending.plan = DefaultPlan

\* C7: when the semantic validator's provider call fails, the verdict is accepted
\* with no defect, nothing is thrown, and the candidate (which passed the local
\* check) is returned with the attempt count unchanged and without a refine call.
C7_FailOpen ==
    (answer.agent = "validator" /\ ~answer.ok) =>
        /\ validation = [valid |-> TRUE, errors |-> <<>>]
        /\ quickSyntaxCheck(code) = <<>>
        /\ pc \in {"verdict", "accepted"}
        /\ pending = NoCall
        /\ calls[Len(calls)] = "validator"
        /\ attempts = RefinerCalls
        /\ pc = "accepted" => result = [code |-> code, plan |-> plan, attempts |-> attempts]

C7_Witness ==
    /\ pc = "accepted"
    /\ answer = [agent |-> "validator", ok |-> FALSE, text |-> <<>>]
    /\ result.code = code

\* the step taken from an accepted verdict
C8_AcceptedStep ==
    (pc = "verdict" /\ validation.valid) =>
        /\ pc' = "accepted"
        /\ result' = [code |-> code, plan |-> plan, attempts |-> RefinerCalls]
        /\ checked
        /\ calls' = calls
        /\ pending = NoCall /\ pending' = NoCall

\* C8: an accepted verdict is followed at once by the return of the candidate just
\* validated, with no provider call in between; the result's attempts is the number
\* of refine cycles done, 0 when the first candidate is accepted.
C8_AcceptReturnsAtOnce ==
    /\ [](pc = "accepted" =>
            (result.code = code /\ result.attempts = RefinerCalls /\ validation.valid))
    /\ [][C8_AcceptedStep]_vars

C8_Witness ==
    /\ pc = "accepted"
    /\ type = "REACT"
    /\ result.attempts = 0
    /\ result.code = extractCode(FencedComponent, "REACT")
    /\ ~Includes(result.code, <<Fence>>)
    /\ answer = [agent |-> "validator", ok |-> TRUE, text |-> ValidAnswer]

\* C9: every run ends: with every pending call completing or failing, one of the
\* outcomes accepted, exhausted or error is reached.
C9_Terminates == <>(pc \in Terminal)

C9_Witness == pc = "exhausted" /\ verdicts = <<FALSE, FALSE, FALSE>>

\* C10 (as claimed): for a command list request whose Generator answer is the
\* commands object with a trailing comma, the stored candidate is that object with
\* the comma removed, the validator's JSON.parse succeeds and the artifact returned
\* is valid JSON.
C10_TrailingCommaRepaired ==
    (/\ type = "GEOGEBRA"
     /\ answer = [agent |-> "generator", ok |-> TRUE, text |-> TrailingCommaJson]) =>
        /\ code = FixJson(TrailingCommaJson)
        /\ JSONParse(code)
        /\ pc \in {"loop", "verdict", "accepted"}
        /\ pc = "verdict" => validation.valid
        /\ pc = "accepted" => JSONParse(result.code)

\* the delimiters of s from index i on are balanced: every closer matches the last
\* opener still open, none is left open, string literals are skipped, and inside a
\* literal a backslash escapes the character after it
RECURSIVE Balanced(_, _, _, _, _)
Balanced(s, i, stack, quote, escaped) ==
    IF i > Len(s) THEN stack = <<>> /\ quote = ""
    ELSE IF quote # ""
         THEN IF escaped THEN Balanced(s, i + 1, stack, quote, FALSE)
              ELSE IF s[i] = "\\" THEN Balanced(s, i + 1, stack, quote, TRUE)
              ELSE IF s[i] = quote THEN Balanced(s, i + 1, stack, "", FALSE)
              ELSE Balanced(s, i + 1, stack, quote, FALSE)
    ELSE IF s[i] \in Quotes THEN Balanced(s, i + 1, stack, s[i], FALSE)
    ELSE IF s[i] \in Openers
         THEN Balanced(s, i + 1, Append(stack, pairs(s[i])), "", FALSE)
    ELSE IF s[i] \in Closers
         THEN /\ stack # <<>>
              /\ stack[Len(stack)] = s[i]
              /\ Balanced(s, i + 1, SubSeq(stack, 1, Len(stack) - 1), "", FALSE)
    ELSE Balanced(s, i + 1, stack, "", FALSE)

\* a line of text that begins with an import statement
ImportLine(text) ==
    \E i \in 1..Len(SplitLines(text)) :
        MatchAt(TrimStart(SplitLines(text)[i]), <<"import", " ">>, 1)

\* C11 (as claimed): a candidate with balanced delimiters, no import line and a
\* return marker gets an empty defect list from quickSyntaxCheck, whatever its
\* string literals hold, a literal ending in an escaped backslash included.
C11_BalancedAccepted ==
    (/\ applied
     /\ Balanced(Characters(candidate), 1, <<>>, "", FALSE)
     /\ ~ImportLine(candidate)
     /\ Includes(candidate, <<"return">>)) => defects = <<>>

\* text without its i-th token
Without(text, i) == SubSeq(text, 1, i - 1) \o SubSeq(text, i + 1, Len(text))

\* text has one unmatched closing delimiter: it is not balanced, and taking one
\* closer out of it leaves it balanced
OneUnmatchedCloser(text) ==
    /\ ~Balanced(text, 1, <<>>, "", FALSE)
    /\ \E i \in 1..Len(text) :
          text[i] \in Closers /\ Balanced(Without(text, i), 1, <<>>, "", FALSE)

IsUnmatchedDefect(d) == d[1] = "Unmatched"

IsUnclosedDefect(d) == d[1] = "Unclosed brackets: expected"

\* C12 (as claimed): for a candidate with one unmatched closing delimiter
\* quickSyntaxCheck reports exactly one unmatched-delimiter defect and no
\* unclosed-bracket defect for the openers that were on the stack when it stopped.
C12_OneUnmatchedDefect ==
    (applied /\ OneUnmatchedCloser(Characters(candidate))) =>
        /\ Cardinality({i \in 1..Len(defects) : IsUnmatchedDefect(defects[i])}) = 1
        /\ \A i \in 1..Len(defects) : ~IsUnclosedDefect(defects[i])

\* C13 (as claimed): extractCode is idempotent: applied to its own result, with the
\* same type, it returns that result unchanged, for every raw text and every type.
C13_ExtractIdempotent == applied => extractCode(extracted, kind) = extracted

\* ctx.code holds the result of the last extractCode call
CodeExtracted == pc \in {"loop", "val_await", "verdict", "ref_await", "accepted", "exhausted"}

\* text is empty or begins with the artifact: the component's export default
\* function or the opening brace of the commands object
NoCommentary(text) ==
    text = <<>> \/ MatchAt(text, ExportDefault, 1) \/ text[1] = "{"

\* C14 (as claimed): whenever ctx.code holds what extractCode returned, after the
\* Generator and after each Refiner call, it holds no code fence marker and no
\* commentary before the artifact, whatever the provider answered.
C14_CandidateNormalized ==
    CodeExtracted => (~Includes(code, <<Fence>>) /\ NoCommentary(code))

\* C15 (as claimed): ctx.errors is empty when a validation starts and while it runs,
\* so also once the Refiner's new candidate is stored, and it is empty in the state
\* an accepted result is returned from; it holds defects only from a rejected
\* verdict to the refine call that follows.
C15_DefectsOnlyWhileRefining ==
    /\ pc \in {"loop", "val_await"} => errors = <<>>
    /\ (pc = "verdict" /\ validation.valid) => errors = <<>>
    /\ pc = "accepted" => errors = <<>>

Awaiting == pc \in {"plan_await", "gen_await", "val_await", "ref_await"}

\* C16: at most one generateContent call of a request is outstanding at any time:
\* a call is outstanding exactly while the orchestrator awaits an agent, in the plan,
\* generate, validate and refine states alike, and every call is issued with none
\* outstanding.
C16_OneCallOutstanding ==
    /\ inFlight \in {0, 1}
    /\ inFlight = 1 <=> Awaiting
    /\ inFlight = 1 <=> pending # NoCall
    /\ inFlight = 0 => answer.agent = (IF calls = <<>> THEN "none" ELSE calls[Len(calls)])

C16_Witness ==
    /\ pc = "ref_await"
    /\ inFlight = 1
    /\ calls = <<"planner", "generator", "validator", "refiner", "validator", "refiner">>

\* the upstream's answer to the i-th request was a failure
Failed(i) == i <= Len(responses) /\ ~responses[i].ok

\* C17 (as claimed): one generateContent call makes at most one upstream request,
\* and when that request fails the call ends by throwing, without a second request,
\* for every provider and model.
C17_NoRetry ==
    /\ Len(requests) <= 1
    /\ Failed(1) => (gpc = "done" /\ outcome.status = "thrown")

\* C17 (amended): one generateContent call makes at most two upstream requests and
\* never the same one twice.  A second request is made only by the Gemini branch for
\* a model named gemini-3 or gemini-2.0, after the SDK request failed, and it is the
\* REST request; there the SDK's failure is not thrown.  In every other case a failed
\* request ends the call by throwing, and a failed REST request does so too.
C17_OneFallbackOnly ==
    /\ Len(requests) <= 2
    /\ Len(requests) = 2 =>
          /\ provider = "gemini" /\ IsGemini3OrNewer
          /\ requests = <<"genai", "rest">>
          /\ Failed(1)
    /\ (Failed(1) /\ requests[1] # "genai") =>
          (Len(requests) = 1 /\ gpc = "done" /\ outcome.status = "thrown")
    /\ (Failed(1) /\ requests[1] = "genai") => Len(requests) = 2
    /\ Failed(2) => (gpc = "done" /\ outcome.status = "thrown")

C17_Witness ==
    /\ gpc = "done"
    /\ requests = <<"genai", "rest">>
    /\ Failed(1) /\ Failed(2)
    /\ outcome.status = "thrown"

\* the upstream's last answer was a success that carries no text
NoTextAnswered ==
    /\ responses # <<>>
    /\ responses[Len(responses)].ok
    /\ (~responses[Len(responses)].defined \/ responses[Len(responses)].text = <<>>)

\* C18 (as claimed): generateContent never returns an empty text: when the upstream's
\* answer carries no text the call throws, and whatever it returns is a non-empty
\* string.
C18_NoEmptyText ==
    /\ (gpc = "done" /\ NoTextAnswered) => outcome.status = "thrown"
    /\ outcome.status = "returned" => (outcome.defined /\ outcome.text # <<>>)

\* the KV was reachable and no KV call failed: every call so far went by the KV
KvHealthy == kvConfigured /\ \A i \in 1..Len(history) : history[i].viaKV

\* the calls that returned success = true after incrementing the entry in lifetime e
Successes(e) == {i \in 1..Len(history) : history[i].lifetime = e /\ history[i].success}

\* C19: with the KV reachable and no KV call failing, in each lifetime of the key at
\* most limit calls of rateLimit return success = true, however the concurrent calls
\* interleave, and a call that observed a count above the limit returns
\* success = false with remaining = 0.
C19_LimitPerLifetime ==
    KvHealthy =>
        /\ \A e \in 1..lifetime : Cardinality(Successes(e)) <= config.limit
        /\ \A i \in 1..Len(history) :
              history[i].count > config.limit =>
                  (~history[i].success /\ history[i].remaining = 0)

C19_Witness ==
    /\ KvHealthy
    /\ lifetime = 1
    /\ Len(history) = MaxCalls
    /\ Cardinality(Successes(1)) = config.limit
    /\ \E i \in 1..Len(history) :
          history[i].count = config.limit + 1 /\ ~history[i].success
    /\ \E i, j \in 1..Len(history) : i < j /\ history[i].count > history[j].count

\* the instants of the model's clock
Instants == {k * TickSeconds : k \in 0..MaxTicks}

\* the calls that returned success = true in the interval of one window from t on
SuccessesFrom(t) ==
    {i \in 1..Len(history) :
        /\ history[i].success
        /\ history[i].at >= t
        /\ history[i].at < t + config.windowSeconds}

\* C20 (as claimed): with the KV reachable and no KV call failing, in every interval
\* of windowSeconds, wherever it starts, at most limit calls of rateLimit for the key
\* return success = true.
C20_SlidingWindow ==
    KvHealthy => \A t \in Instants : Cardinality(SuccessesFrom(t)) <= config.limit

\* the reference scanner: whether the position after each character of s, from
\* index i on, is inside a string literal, where quote is the kind that opened the
\* literal ("" outside) and escaped tells that an unescaped backslash came just before
RECURSIVE LiteralStates(_, _, _, _)
LiteralStates(s, i, quote, escaped) ==
    IF i > Len(s) THEN <<>>
    ELSE IF quote # ""
         THEN IF escaped THEN <<TRUE>> \o LiteralStates(s, i + 1, quote, FALSE)
              ELSE IF s[i] = "\\" THEN <<TRUE>> \o LiteralStates(s, i + 1, quote, TRUE)
              ELSE IF s[i] = quote THEN <<FALSE>> \o LiteralStates(s, i + 1, "", FALSE)
              ELSE <<TRUE>> \o LiteralStates(s, i + 1, quote, FALSE)
    ELSE IF s[i] \in Quotes THEN <<TRUE>> \o LiteralStates(s, i + 1, s[i], FALSE)
    ELSE <<FALSE>> \o LiteralStates(s, i + 1, "", FALSE)

\* C21 (as claimed): after each character the bracket scan of quickSyntaxCheck went
\* through, its inString flag equals the reference scanner's inside-literal state,
\* so a literal ending in an escaped backslash closes at the quote that follows.
C21_StringStateRefines ==
    applied =>
        LET scanned == BracketScan(Characters(candidate), 1, <<>>, FALSE, "").strings
            reference == LiteralStates(Characters(candidate), 1, "", FALSE)
        IN  \A k \in 1..Len(scanned) : scanned[k] = reference[k]

\* C22 (as claimed): quickSyntaxCheck reports the import defect exactly when some
\* line of the candidate is an import declaration that is not commented out,
\* whether or not a commented-out import appears elsewhere.
C22_ImportDefectExact ==
    applied =>
        ((\E k \in 1..Len(defects) : defects[k] = ImportError) <=> ImportLine(candidate))

\* C23: every verdict of validatorAgent is accepted exactly when its defect list is
\* empty: after a local rejection, a JSON parse, an acceptance token, a defect list
\* (one with no usable line included) and a provider error.
C23_VerdictConsistent ==
    verdicts # <<>> => (validation.valid <=> validation.errors = <<>>)

C23_Witness ==
    /\ pc = "verdict"
    /\ answer = [agent |-> "validator", ok |-> TRUE, text |-> <<"#", " ", "a">>]
    /\ validation = [valid |-> TRUE, errors |-> <<>>]

\* the number of calls made on behalf of agent
CallsOf(agent) == Cardinality({k \in 1..Len(calls) : calls[k] = agent})

\* C24: the provider is asked to validate a candidate only when quickSyntaxCheck
\* reports nothing on that candidate; when it reports defects the verdict is exactly
\* those defects and no call is made; for GEOGEBRA no call is made and the verdict
\* is accepted exactly when JSON.parse of the candidate succeeds.
C24_SemanticAfterLocal ==
    /\ pending.agent = "validator" =>
          (type # "GEOGEBRA" /\ pending.code = code /\ quickSyntaxCheck(code) = <<>>)
    /\ (pc = "verdict" /\ type # "GEOGEBRA" /\ quickSyntaxCheck(code) # <<>>) =>
          /\ validation = [valid |-> FALSE, errors |-> quickSyntaxCheck(code)]
          /\ calls[Len(calls)] # "validator"
    /\ type = "GEOGEBRA" =>
          /\ CallsOf("validator") = 0
          /\ pc = "verdict" => (validation.valid <=> JSONParse(code))

C24_Witness ==
    /\ pc = "verdict"
    /\ type = "REACT"
    /\ code = extractCode(BrokenComponent, "REACT")
    /\ validation.errors = quickSyntaxCheck(code)
    /\ validation.errors # <<>>
    /\ calls = <<"planner", "generator">>

\* a step that calls the Refiner
C25_RefinerStep ==
    (Len(calls') > Len(calls) /\ calls'[Len(calls')] = "refiner") =>
        /\ pc = "verdict"
        /\ ~validation.valid
        /\ attempts < MAX_ATTEMPTS
        /\ attempts' = attempts + 1
        /\ errors' = validation.errors
        /\ code' = code
        /\ pending'.code = code
        /\ pending'.errors = validation.errors

\* C25: the Refiner is called only right after a rejected verdict with attempts < 3,
\* in a step that adds one to attempts, stores the verdict's defects and hands the
\* Refiner the rejected candidate and those defects; hence attempts equals the
\* number of Refiner calls, in every returned result too.
C25_RefineCycle ==
    /\ [](attempts = CallsOf("refiner"))
    /\ [](pc \in {"accepted", "exhausted"} => result.attempts = CallsOf("refiner"))
    /\ [][C25_RefinerStep]_vars

C25_Witness ==
    /\ pc = "ref_await"
    /\ attempts = 2
    /\ errors = SemanticVerdict(DefectAnswer).errors
    /\ pending = [agent |-> "refiner", plan |-> <<>>, code |-> code, errors |-> errors]

\* C26: the Planner is called once and first, the Generator once and second, before
\* any validation; the plan is written by the planning step alone, the artifact kind
\* never changes, and the returned plan is the plan the planning step left.
C26_PlanFrame ==
    /\ [](\A k \in 1..Len(calls) :
            /\ calls[k] = "planner" <=> k = 1
            /\ calls[k] = "generator" <=> k = 2)
    /\ [](verdicts # <<>> => Len(calls) >= 2)
    /\ [](pc \in {"accepted", "exhausted"} => result.plan = plan)
    /\ [][/\ type' = type
          /\ plan' # plan => (pc = "plan_await" /\ pc' = "generate")]_vars

C26_Witness ==
    /\ pc = "accepted"
    /\ attempts = 1
    /\ plan = PlannerSteps(NumberedPlan)
    /\ result.plan = plan
    /\ plan # DefaultPlan

\* C29: a request makes at most 8 generateContent calls for REACT (1 planner,
\* 1 generator, at most 3 validations, at most 3 refinements) and at most 5 for
\* GEOGEBRA, none of them a validation.
C29_CallsBounded ==
    /\ CallsOf("planner") <= 1
    /\ CallsOf("generator") <= 1
    /\ CallsOf("validator") <= (IF type = "GEOGEBRA" THEN 0 ELSE 3)
    /\ CallsOf("refiner") <= 3
    /\ Len(calls) <= (IF type = "GEOGEBRA" THEN 5 ELSE 8)

C29_Witness ==
    /\ pc = "exhausted"
    /\ type = "REACT"
    /\ Len(calls) = 8
    /\ CallsOf("validator") = 3

\* s from index i on without the braces that stand inside a string literal, where
\* quote is the kind that opened the literal ("" outside) and escaped tells that
\* an unescaped backslash came just before
RECURSIVE WithoutStringBraces(_, _, _, _)
WithoutStringBraces(s, i, quote, escaped) ==
    IF i > Len(s) THEN <<>>
    ELSE IF quote # ""
         THEN IF escaped THEN <<s[i]>> \o WithoutStringBraces(s, i + 1, quote, FALSE)
              ELSE IF s[i] = "\\"
                   THEN <<s[i]>> \o WithoutStringBraces(s, i + 1, quote, TRUE)
              ELSE IF s[i] = quote
                   THEN <<s[i]>> \o WithoutStringBraces(s, i + 1, "", FALSE)
              ELSE IF s[i] \in {"{", "}"}
                   THEN WithoutStringBraces(s, i + 1, quote, FALSE)
              ELSE <<s[i]>> \o WithoutStringBraces(s, i + 1, quote, FALSE)
    ELSE IF s[i] \in Quotes THEN <<s[i]>> \o WithoutStringBraces(s, i + 1, s[i], FALSE)
    ELSE <<s[i]>> \o WithoutStringBraces(s, i + 1, "", FALSE)

\* C27 (as claimed): for REACT, a brace inside a string literal has no effect on
\* where extractCode finds the end of the component: what it extracts is, braces in
\* literals aside, what it extracts from the raw text without those braces.
C27_StringBracesIgnored ==
    (applied /\ kind = "REACT") =>
        WithoutStringBraces(extracted, 1, "", FALSE)
            = extractCode(WithoutStringBraces(rawText, 1, "", FALSE), "REACT")

\* C28 (as claimed): for GEOGEBRA_API, when the commands-object pattern matches and
\* the match parses neither as it is nor after the trailing-comma repair,
\* extractCode returns the matched text unchanged.
C28_UnparsedMatchReturned ==
    LET jsonMatch == JsonMatch(Trim(rawText))
    IN  (/\ applied
         /\ kind = "GEOGEBRA_API"
         /\ jsonMatch.found
         /\ ~JSONParse(jsonMatch.text)
         /\ ~JSONParse(FixJson(jsonMatch.text)))
        => extracted = jsonMatch.text

\* C30 (as claimed): an entry of the KV with a count of at least 1 has an expiry,
\* but for the moment in which the call that created it is about to set one; this
\* also when that call's expire fails or the caller stops before it.
C30_CountedKeyExpires ==
    (key.count >= 1 /\ key.expireAt = -1) =>
        \E id \in 1..NumCallers : callers[id].pc = "expire"

====
